---- MODULE Spec2Model ----
(***************************************************************************)
(* Daily-verse selection of the kjv repository: the VerseSelector service  *)
(* (app/services/selection.py), the two tables it reads and writes         *)
(* (app/models), and the callers that drive it: the /verse/today route,    *)
(* the schedule script, the manager window's reset, the selection test,    *)
(* and the script that loads the verses.                                   *)
(*                                                                         *)
(* Optional values (Python's None) are sequences of length 0 or 1.         *)
(* Dates are day numbers.                                                  *)
(***************************************************************************)
EXTENDS Integers, Sequences, FiniteSets

VARIABLES
    verses,        \* table "verses": id -> [book, chapter, verse, text_kjv]
    settingsSeed,  \* settings.seed, the process-wide default seed
    selections,    \* table "daily_selections": set of [id, date, verse_id]
    rng,           \* state of the random source of a selector that is kept
    lastCall,      \* the last operation invoked and what it returned or raised
    pc,            \* per session: position inside get_for_date
    loc,           \* per session: the locals of get_for_date / _pick_new_verse
    twin           \* a second selector over its own copy of the store

vars == <<verses, settingsSeed, selections, rng, lastCall, pc, loc, twin>>

-----------------------------------------------------------------------------
\* Bounds of the model

MaxVerses == 3      \* catalogs hold 0..MaxVerses entries
MaxDate   == 3      \* dates are the days 1..MaxDate
MaxSeed   == 1      \* explicit seeds are 0..MaxSeed
MaxRows   == 2      \* CSV files hold 0..MaxRows data rows

\* The random source has one internal state per index of the largest pool
RngMod    == MaxVerses

Dates     == 1..MaxDate
Seeds     == 0..MaxSeed
RngStates == 0..(RngMod - 1)
Procs     == {"a", "b"}

None      == <<>>
Some(x)   == <<x>>

-----------------------------------------------------------------------------
\* Tables

\* Verse row
Verse(book, chapter, verse, text_kjv) ==
    [book |-> book, chapter |-> chapter, verse |-> verse, text_kjv |-> text_kjv]

\* The five verse rows the selection test loads
TestVerses ==
    << Verse("Genesis", 1, 1, "KJV G1:1"),
       Verse("Genesis", 1, 2, "KJV G1:2"),
       Verse("Genesis", 2, 1, "KJV G2:1"),
       Verse("Exodus",  1, 1, "KJV E1:1"),
       Verse("Exodus",  1, 2, "KJV E1:2") >>

\* The catalogs a load leaves behind: up to MaxVerses consecutive rows of the
\* data, with the ids 1..n in file order.
Catalogs ==
    UNION {{[i \in 1..n |-> TestVerses[first + i]] :
              first \in 0..(Len(TestVerses) - n)} : n \in 0..MaxVerses}

VerseIds(vs) == 1..Len(vs)

\* Mutation of Selection: date and verse_id are swapped
SelectionSwapped(id, d, v) == [id |-> id, date |-> v, verse_id |-> d]

\* DailySelection row
Selection(id, d, v) == [id |-> id, date |-> d, verse_id |-> v]

SetMax(S) == CHOOSE x \in S : \A y \in S : y <= x

\* Integer primary key of the next inserted row (SQLite rowid: max + 1)
NextId(sels) == IF sels = {} THEN 1 ELSE SetMax({s.id : s \in sels}) + 1

-----------------------------------------------------------------------------
\* random.Random

\* Python truth value of an optional int: None and 0 are falsy
Truthy(x) == x # None /\ x[1] # 0

\* The Python expression  a or b
PyOr(a, b) == IF Truthy(a) THEN a ELSE b

\* random.Random(x): seeded by x, or from OS entropy when x is None
RandomStates(x) == IF x = None THEN RngStates ELSE {x[1] % RngMod}

\* The argument VerseSelector.__init__ hands to random.Random
SelectorSeed(seed, settings_seed) == PyOr(seed, settings_seed)

\* random.choice(pool): an index below len(pool) drawn from the state,
\* which advances
RandBelow(r, n) == r % n
Advance(r)      == (r + 1) % RngMod

\* Mutation of Choice: the position in the pool is taken for the verse id
ChoiceIndex(r, pool) == RandBelow(r, Len(pool)) + 1

\* random.choice(pool)
Choice(r, pool) == pool[RandBelow(r, Len(pool)) + 1]

-----------------------------------------------------------------------------
\* VerseSelector

\* Mutation of Existing: the lookup by date finds nothing
ExistingNever(sels, d) == None

\* select(DailySelection).where(DailySelection.date == target_date)
Existing(sels, d) ==
    IF \E s \in sels : s.date = d
    THEN Some(CHOOSE s \in sels : s.date = d)
    ELSE None

\* Mutation of UsedIds: only the verse of the latest date counts as used
UsedIdsLatest(sels) ==
    {s.verse_id : s \in {x \in sels : \A y \in sels : y.date <= x.date}}

\* used_ids
UsedIds(sels) == {s.verse_id : s \in sels}

\* Mutation of LastSelection: the row created last, whatever its date
LastSelectionCreated(sels) ==
    IF sels = {} THEN None
    ELSE Some(CHOOSE s \in sels : \A t \in sels : t.id <= s.id)

\* Mutation of LastSelection: the order by date is ascending
LastSelectionOldest(sels) ==
    IF sels = {} THEN None
    ELSE Some(CHOOSE s \in sels : \A t \in sels : s.date <= t.date)

\* select(DailySelection).order_by(DailySelection.date.desc()), first row
LastSelection(sels) ==
    IF sels = {} THEN None
    ELSE Some(CHOOSE s \in sels : \A t \in sels : t.date <= s.date)

GroupOf(vs, v) == <<vs[v].book, vs[v].chapter>>

\* last_verse of the row last_selection, and its (book, chapter)
ChapterOf(vs, last) ==
    IF last = None THEN None
    ELSE IF last[1].verse_id \notin VerseIds(vs) THEN None
    ELSE Some(GroupOf(vs, last[1].verse_id))

\* last_chapter
LastChapter(vs, sels) == ChapterOf(vs, LastSelection(sels))

\* Mutation of Candidates: the used verses are not excluded
CandidatesAll(vs, used) == [i \in 1..Len(vs) |-> i]

\* candidates: the verses whose id is not in used_ids, in table order
Candidates(vs, used) ==
    SelectSeq([i \in 1..Len(vs) |-> i], LAMBDA i : i \notin used)

\* Mutation of Filtered: the comparison is inverted
FilteredSame(vs, cands, last) ==
    SelectSeq(cands, LAMBDA c : Some(GroupOf(vs, c)) = last)

\* filtered: the candidates outside last_chapter
Filtered(vs, cands, last) ==
    SelectSeq(cands, LAMBDA c : Some(GroupOf(vs, c)) # last)

\* Mutation of FilteredOr: no fallback to the candidates
FilteredOnly(filtered, cands) == filtered

\* filtered if filtered else candidates
FilteredOr(filtered, cands) == IF filtered # <<>> THEN filtered ELSE cands

\* Mutation of Pool: the chapter filter is not applied
PoolUnfiltered(vs, cands, last) == cands

\* pool
Pool(vs, cands, last) == FilteredOr(Filtered(vs, cands, last), cands)

\* random.choice(pool): IndexError on an empty pool
ChooseIn(pool, last, r) ==
    IF pool = <<>>
    THEN [raised |-> TRUE, verse |-> None, rng |-> r, last_chapter |-> last,
          pool |-> Some(pool)]
    ELSE [raised |-> FALSE, verse |-> Some(Choice(r, pool)), rng |-> Advance(r),
          last_chapter |-> last, pool |-> Some(pool)]

\* if not candidates: raise ValueError; else random.choice(pool)
ChooseAmong(vs, cands, last, r) ==
    IF cands = <<>>
    THEN [raised |-> TRUE, verse |-> None, rng |-> r, last_chapter |-> last,
          pool |-> None]
    ELSE ChooseIn(Pool(vs, cands, last), last, r)

\* Mutation of ChooseFrom: no fallback, an empty filtered list raises too
ChooseFromStrict(vs, used, last, r) ==
    ChooseAmong(vs, Filtered(vs, Candidates(vs, used), last), None, r)

\* The lines of _pick_new_verse after the reads of used_ids and
\* last_chapter: raise on an empty candidate list, else choose from the pool
ChooseFrom(vs, used, last, r) == ChooseAmong(vs, Candidates(vs, used), last, r)

\* _pick_new_verse
PickNewVerse(vs, sels, r) ==
    ChooseFrom(vs, UsedIds(sels), LastChapter(vs, sels), r)

\* The table with a committed new row
WithRow(sels, row) == [ok |-> TRUE, sels |-> sels \cup {row}, row |-> Some(row)]

\* Mutation of InsertSelection: the date column is not unique
InsertUnchecked(sels, d, v) == WithRow(sels, Selection(NextId(sels), d, v))

\* db.add(selection); db.commit(): the insert is refused (IntegrityError)
\* when a row for the date exists (uq_date)
InsertSelection(sels, d, v) ==
    IF \E s \in sels : s.date = d
    THEN [ok |-> FALSE, sels |-> sels, row |-> None]
    ELSE WithRow(sels, Selection(NextId(sels), d, v))

\* Mutation of Resolve: Exhausted clears the history
ResolveAutoReset(vs, sels, r, d) ==
    LET existing == Existing(sels, d)
        pick     == PickNewVerse(vs, sels, r)
        ins      == InsertSelection(sels, d, pick.verse[1])
    IN  IF existing # None
        THEN [status |-> "existing", row |-> existing, sels |-> sels, rng |-> r,
              last_chapter |-> None, pool |-> None]
        ELSE IF pick.raised
        THEN [status |-> "exhausted", row |-> None, sels |-> {}, rng |-> pick.rng,
              last_chapter |-> pick.last_chapter, pool |-> pick.pool]
        ELSE [status |-> IF ins.ok THEN "created" ELSE "conflict",
              row |-> ins.row, sels |-> ins.sels, rng |-> pick.rng,
              last_chapter |-> pick.last_chapter, pool |-> pick.pool]

\* Mutation of Resolve: the verse is drawn before the lookup by date
ResolveDrawFirst(vs, sels, r, d) ==
    LET existing == Existing(sels, d)
        pick     == PickNewVerse(vs, sels, r)
        ins      == InsertSelection(sels, d, pick.verse[1])
    IN  IF existing # None
        THEN [status |-> "existing", row |-> existing, sels |-> sels, rng |-> pick.rng,
              last_chapter |-> None, pool |-> None]
        ELSE IF pick.raised
        THEN [status |-> "exhausted", row |-> None, sels |-> sels, rng |-> pick.rng,
              last_chapter |-> pick.last_chapter, pool |-> pick.pool]
        ELSE [status |-> IF ins.ok THEN "created" ELSE "conflict",
              row |-> ins.row, sels |-> ins.sels, rng |-> pick.rng,
              last_chapter |-> pick.last_chapter, pool |-> pick.pool]

\* get_for_date run to completion by a single writer: what it returns
\* ("existing", "created") or raises ("exhausted" for the ValueError of
\* _pick_new_verse, "conflict" for the IntegrityError of the commit), the
\* table and the random state it leaves
Resolve(vs, sels, r, d) ==
    LET existing == Existing(sels, d)
        pick     == PickNewVerse(vs, sels, r)
        ins      == InsertSelection(sels, d, pick.verse[1])
    IN  IF existing # None
        THEN [status |-> "existing", row |-> existing, sels |-> sels, rng |-> r,
              last_chapter |-> None, pool |-> None]
        ELSE IF pick.raised
        THEN [status |-> "exhausted", row |-> None, sels |-> sels, rng |-> pick.rng,
              last_chapter |-> pick.last_chapter, pool |-> pick.pool]
        ELSE [status |-> IF ins.ok THEN "created" ELSE "conflict",
              row |-> ins.row, sels |-> ins.sels, rng |-> pick.rng,
              last_chapter |-> pick.last_chapter, pool |-> pick.pool]

\* The record kept of an operation: its name and arguments and the outcome;
\* for a resolution also the table it found
Outcome(op, d, before, res, response) ==
    [op |-> op, date |-> d, range |-> None, before |-> before, status |-> res.status,
     row |-> res.row, last_chapter |-> res.last_chapter, pool |-> res.pool,
     response |-> response]

NoOutcome(op) ==
    [op |-> op, date |-> None, range |-> None, before |-> {}, status |-> "none",
     row |-> None, last_chapter |-> None, pool |-> None, response |-> None]

\* The locals of a session outside get_for_date
IdleLoc == [date |-> None, used |-> {}, last |-> None, verse |-> None,
            rng |-> 0, status |-> "none", row |-> None]

NoTwin == [seed |-> None, rng |-> 0, lastCall |-> NoOutcome("none")]

\* The random states of a selector built as VerseSelector(db), as the route
\* and the schedule script build theirs
FreshStates(settings_seed) == RandomStates(SelectorSeed(None, settings_seed))

-----------------------------------------------------------------------------
\* Single-writer operations. Every caller builds its own VerseSelector(db).

\* settings.seed is left at its default (None); SpecSeed varies it.
Init ==
    /\ verses \in Catalogs
    /\ settingsSeed = None
    /\ selections = {}
    /\ rng = 0
    /\ lastCall = NoOutcome("none")
    /\ pc = [p \in Procs |-> "idle"]
    /\ loc = [p \in Procs |-> IdleLoc]
    /\ twin = NoTwin

\* VerseSelector(db).get_for_date(d)
GetForDate(d) ==
    /\ \E r \in FreshStates(settingsSeed) :
         LET res == Resolve(verses, selections, r, d)
         IN  /\ selections' = res.sels
             /\ lastCall' = Outcome("get_for_date", Some(d), selections, res, None)
    /\ UNCHANGED <<verses, settingsSeed, rng, pc, loc, twin>>

\* VerseSelector(db).get_today(): get_for_date(date.today())
GetToday ==
    /\ \E today \in Dates, r \in FreshStates(settingsSeed) :
         LET res == Resolve(verses, selections, r, today)
         IN  /\ selections' = res.sels
             /\ lastCall' = Outcome("get_for_date", Some(today), selections, res, None)
    /\ UNCHANGED <<verses, settingsSeed, rng, pc, loc, twin>>

\* What GET /verse/today answers: an exception of get_for_date passes through
\* ("error"); a selection whose verse is missing answers "verse not found"
RouteResponse(vs, res) ==
    IF res.row = None THEN Some("error")
    ELSE IF res.row[1].verse_id \notin VerseIds(vs) THEN Some("verse not found")
    ELSE Some("verse")

\* GET /verse/today
VerseToday ==
    /\ \E today \in Dates, r \in FreshStates(settingsSeed) :
         LET res == Resolve(verses, selections, r, today)
         IN  /\ selections' = res.sels
             /\ lastCall' = Outcome("verse_today", Some(today), selections, res,
                                    RouteResponse(verses, res))
    /\ UNCHANGED <<verses, settingsSeed, rng, pc, loc, twin>>

\* The ids of the model stay within 1..MaxId
MaxId == MaxDate

RECURSIVE GenerateLoop(_, _, _, _, _, _, _)

\* The end of one pass of the loop of generate(): get_for_date(target) has
\* raised, which ends generate(), or has returned and the loop goes on. A run
\* that has left the ids of the model is not followed further.
GenerateResolved(vs, res, start, days, overwrite, offset) ==
    IF res.status \in {"exhausted", "conflict"}
       \/ (res.row # None /\ res.row[1].id > MaxId)
    THEN [status |-> res.status, date |-> Some(start + offset),
          sels |-> res.sels, rng |-> res.rng]
    ELSE GenerateLoop(vs, res.sels, res.rng, start, days, overwrite, offset + 1)

\* Mutation of GeneratePass: the overwrite flag is not read, an existing row
\* is always replaced
GeneratePassOverwrite(vs, sels, r, start, days, overwrite, offset, existing) ==
    GenerateResolved(
        vs,
        Resolve(vs,
                IF existing # None THEN sels \ {existing[1]} ELSE sels,
                r, start + offset),
        start, days, overwrite, offset)

\* Mutation of GeneratePass: with overwrite the row of the date is deleted and
\* the date is not resolved again
GeneratePassDeleteOnly(vs, sels, r, start, days, overwrite, offset, existing) ==
    IF existing # None
    THEN GenerateLoop(vs, IF overwrite THEN sels \ {existing[1]} ELSE sels, r,
                      start, days, overwrite, offset + 1)
    ELSE GenerateResolved(vs, Resolve(vs, sels, r, start + offset),
                          start, days, overwrite, offset)

\* One pass of the loop of generate(): the date is left alone when it has a
\* row and overwrite is off; else its row, if any, is deleted and the date
\* resolved
GeneratePass(vs, sels, r, start, days, overwrite, offset, existing) ==
    IF existing # None /\ ~overwrite
    THEN GenerateLoop(vs, sels, r, start, days, overwrite, offset + 1)
    ELSE GenerateResolved(
             vs,
             Resolve(vs,
                     IF existing # None THEN sels \ {existing[1]} ELSE sels,
                     r, start + offset),
             start, days, overwrite, offset)

\* The loop of generate() from the given offset on, until the range ends or
\* get_for_date raises
GenerateLoop(vs, sels, r, start, days, overwrite, offset) ==
    IF offset >= days
    THEN [status |-> "done", date |-> None, sels |-> sels, rng |-> r]
    ELSE GeneratePass(vs, sels, r, start, days, overwrite, offset,
                      Existing(sels, start + offset))

\* Mutation of Generate: a run that does not end normally leaves the table as
\* it found it
GenerateAtomic(start, days, overwrite) ==
    /\ \E r \in FreshStates(settingsSeed) :
         \E out \in {GenerateLoop(verses, selections, r, start, days, overwrite, 0)} :
             /\ \A s \in out.sels : s.id <= MaxId
             /\ selections' = IF out.status = "done" THEN out.sels ELSE selections
             /\ lastCall' = [NoOutcome("generate") EXCEPT
                                !.date = out.date,
                                !.range = Some(<<start, days, overwrite>>),
                                !.status = out.status]
    /\ UNCHANGED <<verses, settingsSeed, rng, pc, loc, twin>>

\* scripts.schedule_verses.generate(start, days, overwrite)
Generate(start, days, overwrite) ==
    /\ \E r \in FreshStates(settingsSeed) :
         \E out \in {GenerateLoop(verses, selections, r, start, days, overwrite, 0)} :
             /\ \A s \in out.sels : s.id <= MaxId
             /\ selections' = out.sels
             /\ lastCall' = [NoOutcome("generate") EXCEPT
                                !.date = out.date,
                                !.range = Some(<<start, days, overwrite>>),
                                !.status = out.status]
    /\ UNCHANGED <<verses, settingsSeed, rng, pc, loc, twin>>

\* Mutation of ResetDailySelections: the rows of the last date are kept
ResetOlderSelections ==
    /\ selections' = {s \in selections : s.date = MaxDate}
    /\ lastCall' = NoOutcome("reset")
    /\ UNCHANGED <<verses, settingsSeed, rng, pc, loc, twin>>

\* VerseManagerWindow.reset_daily_selections: DELETE FROM daily_selections
ResetDailySelections ==
    /\ selections' = {}
    /\ lastCall' = NoOutcome("reset")
    /\ UNCHANGED <<verses, settingsSeed, rng, pc, loc, twin>>

\* The selector and the route
Next ==
    \/ \E d \in Dates : GetForDate(d)
    \/ GetToday
    \/ VerseToday
    \/ ResetDailySelections

Spec == Init /\ [][Next]_vars

\* The schedule script, which drives the selector (a run over one day is one
\* call of get_for_date), and the reset
NextSched ==
    \/ \E start \in Dates, days \in 1..MaxDate, overwrite \in BOOLEAN :
          /\ start + days - 1 <= MaxDate
          /\ Generate(start, days, overwrite)
    \/ ResetDailySelections

SpecSched == Init /\ [][NextSched]_vars

-----------------------------------------------------------------------------
\* Concurrent sessions: each runs VerseSelector(db).get_for_date(d) once,
\* statement by statement, every query reading the table as committed at that
\* moment.

\* The call begins: a fresh selector, target_date = d
Begin(p, d) ==
    /\ pc[p] = "idle"
    /\ \E r \in FreshStates(settingsSeed) :
         loc' = [loc EXCEPT ![p] = [IdleLoc EXCEPT !.date = Some(d), !.rng = r]]
    /\ pc' = [pc EXCEPT ![p] = "check"]
    /\ UNCHANGED <<verses, settingsSeed, selections, rng, lastCall, twin>>

\* existing = ...; if existing: return existing
CheckExisting(p) ==
    /\ pc[p] = "check"
    /\ LET existing == Existing(selections, loc[p].date[1])
       IN  IF existing # None
           THEN /\ loc' = [loc EXCEPT ![p] = [IdleLoc EXCEPT !.date = loc[p].date,
                                                 !.status = "existing",
                                                 !.row = existing]]
                /\ pc' = [pc EXCEPT ![p] = "done"]
           ELSE /\ pc' = [pc EXCEPT ![p] = "used"]
                /\ loc' = loc
    /\ UNCHANGED <<verses, settingsSeed, selections, rng, lastCall, twin>>

\* used_ids = ...
ReadUsed(p) ==
    /\ pc[p] = "used"
    /\ loc' = [loc EXCEPT ![p].used = UsedIds(selections)]
    /\ pc' = [pc EXCEPT ![p] = "last"]
    /\ UNCHANGED <<verses, settingsSeed, selections, rng, lastCall, twin>>

\* last_selection = ...; last_chapter = ...
ReadLast(p) ==
    /\ pc[p] = "last"
    /\ loc' = [loc EXCEPT ![p].last = LastChapter(verses, selections)]
    /\ pc' = [pc EXCEPT ![p] = "candidates"]
    /\ UNCHANGED <<verses, settingsSeed, selections, rng, lastCall, twin>>

\* candidates = ...; raise ValueError, or choose from the pool
ReadCandidates(p) ==
    /\ pc[p] = "candidates"
    /\ LET out == ChooseFrom(verses, loc[p].used, loc[p].last, loc[p].rng)
       IN  IF out.raised
           THEN /\ loc' = [loc EXCEPT ![p] = [IdleLoc EXCEPT !.date = loc[p].date,
                                                 !.status = "exhausted"]]
                /\ pc' = [pc EXCEPT ![p] = "done"]
           ELSE /\ loc' = [loc EXCEPT ![p].verse = out.verse, ![p].rng = out.rng]
                /\ pc' = [pc EXCEPT ![p] = "insert"]
    /\ UNCHANGED <<verses, settingsSeed, selections, rng, lastCall, twin>>

\* db.add(selection); db.commit(); return selection. A refused insert raises
\* IntegrityError out of get_for_date: nothing catches it.
Insert(p) ==
    /\ pc[p] = "insert"
    /\ LET ins == InsertSelection(selections, loc[p].date[1], loc[p].verse[1])
       IN  /\ selections' = ins.sels
           /\ loc' = [loc EXCEPT ![p] = [IdleLoc EXCEPT
                         !.date = loc[p].date,
                         !.status = IF ins.ok THEN "created" ELSE "conflict",
                         !.row = ins.row]]
    /\ pc' = [pc EXCEPT ![p] = "done"]
    /\ UNCHANGED <<verses, settingsSeed, rng, lastCall, twin>>

NextConc ==
    \E p \in Procs :
        \/ \E d \in Dates : Begin(p, d)
        \/ CheckExisting(p)
        \/ ReadUsed(p)
        \/ ReadLast(p)
        \/ ReadCandidates(p)
        \/ Insert(p)

SpecConc == Init /\ [][NextConc]_vars

-----------------------------------------------------------------------------
\* Two selectors built with the same seed argument, each kept across calls
\* and run through the same calls over its own copy of the same store.

InitSeed ==
    /\ verses \in Catalogs
    /\ settingsSeed \in {None} \cup {Some(s) : s \in Seeds}
    /\ selections = {}
    /\ lastCall = NoOutcome("init")
    /\ pc = [p \in Procs |-> "idle"]
    /\ loc = [p \in Procs |-> IdleLoc]
    /\ \E seed \in Seeds :
         /\ rng \in RandomStates(SelectorSeed(Some(seed), settingsSeed))
         /\ twin \in {[seed |-> Some(seed), rng |-> r, lastCall |-> NoOutcome("init")] :
                        r \in RandomStates(SelectorSeed(Some(seed), settingsSeed))}

\* Both selectors run get_for_date(d). The two stores are equal as long as
\* the two selectors returned the same rows; the comparison ends when they
\* differ.
TwinGetForDate(d) ==
    /\ twin.lastCall.row = lastCall.row
    /\ LET res  == Resolve(verses, selections, rng, d)
           res2 == Resolve(verses, selections, twin.rng, d)
       IN  /\ selections' = res.sels
           /\ rng' = res.rng
           /\ lastCall' = Outcome("get_for_date", Some(d), selections, res, None)
           /\ twin' = [twin EXCEPT
                          !.rng = res2.rng,
                          !.lastCall = Outcome("get_for_date", Some(d), selections, res2, None)]
    /\ UNCHANGED <<verses, settingsSeed, pc, loc>>

NextSeed == \E d \in Dates : TwinGetForDate(d)

SpecSeed == InitSeed /\ [][NextSeed]_vars

-----------------------------------------------------------------------------
\* The selection test: the five test verses, one selector, five consecutive
\* dates resolved in ascending order.

\* for i in range(5)
TestDays == 5

InitTest ==
    /\ verses = TestVerses
    /\ settingsSeed = None
    /\ selections = {}
    /\ rng = 0
    /\ lastCall = NoOutcome("none")
    /\ pc = [p \in Procs |-> "idle"]
    /\ loc = [p \in Procs |-> IdleLoc]
    /\ twin = NoTwin

\* The draws of random.choice in the test: one for every index a pool of
\* the test verses has
TestDraws == 0..(Len(TestVerses) - 1)

\* One pass of the loop: selector.get_for_date(base + timedelta(days=i)),
\* base being day 1 and i the number of passes made. The seed is left open:
\* the choice of the pass can fall on any index of the pool.
TestGetForDate ==
    /\ Cardinality(selections) < TestDays
    /\ lastCall.status \in {"none", "created"}
    /\ \E r \in TestDraws :
         LET d   == 1 + Cardinality(selections)
             res == Resolve(verses, selections, r, d)
         IN  /\ selections' = res.sels
             /\ lastCall' = Outcome("get_for_date", Some(d), selections, res, None)
    /\ UNCHANGED <<verses, settingsSeed, rng, pc, loc, twin>>

NextTest == TestGetForDate

SpecTest == InitTest /\ [][NextTest]_vars

-----------------------------------------------------------------------------
\* The selector over the five test verses, the dates resolved in any order
\* (ahead, backfilling).

NextAnyOrder == \E d \in Dates : GetForDate(d)

SpecAnyOrder == InitTest /\ [][NextAnyOrder]_vars

-----------------------------------------------------------------------------
\* scripts/load_verses.py

\* int(s) for the strings of the data: the number, or None for ValueError
PyInt(s) ==
    IF s \in {"1", "01", " 1"} THEN Some(1)
    ELSE IF s \in {"2", "02"} THEN Some(2)
    ELSE None

\* The columns load_csv requires
Required == {"book", "chapter", "verse", "text_kjv"}

\* Data rows as csv.DictReader yields them, every field a string: a verse,
\* the same verse written differently and with another text, a second verse,
\* and a row whose chapter is no number
CsvRows ==
    { [book |-> "Genesis", chapter |-> "1",   verse |-> "1", text_kjv |-> "KJV G1:1"],
      [book |-> "Genesis", chapter |-> "01",  verse |-> "1", text_kjv |-> "In the beginning"],
      [book |-> "Genesis", chapter |-> "1",   verse |-> "2", text_kjv |-> "KJV G1:2"],
      [book |-> "Genesis", chapter |-> "one", verse |-> "1", text_kjv |-> "KJV G1:1"] }

\* CSV files: the header row and up to MaxRows data rows
Files ==
    [fieldnames : {Required, Required \ {"text_kjv"}},
     rows       : UNION {[1..n -> CsvRows] : n \in 0..MaxRows}]

\* The autoflush setting of SessionLocal (app/db/session.py): on, a query
\* sees the rows the session has added; off, only what is committed
Autoflush == BOOLEAN

\* Verse(book=row["book"], chapter=int(row["chapter"]), ...)
VerseOfRow(row) ==
    Verse(row.book, PyInt(row.chapter)[1], PyInt(row.verse)[1], row.text_kjv)

Triple(e) == <<e.book, e.chapter, e.verse>>

\* Mutation of HasTriple: the lookup finds nothing
HasTripleNever(table, k) == FALSE

\* select(Verse).where(book == .., chapter == .., verse == ..) finds a row
HasTriple(table, k) == \E i \in 1..Len(table) : Triple(table[i]) = k

\* Mutation of VerseInsert: the table has no unique constraint
VerseInsertUnchecked(table, e) == [ok |-> TRUE, table |-> Append(table, e)]

\* INSERT of one verse: refused (IntegrityError) when the triple exists
\* (uq_book_chapter_verse)
VerseInsert(table, e) ==
    IF HasTriple(table, Triple(e))
    THEN [ok |-> FALSE, table |-> table]
    ELSE [ok |-> TRUE, table |-> Append(table, e)]

RECURSIVE Flush(_, _)
\* The pending verses are inserted in the order they were added
Flush(table, pending) ==
    IF pending = <<>> THEN [ok |-> TRUE, table |-> table]
    ELSE LET ins == VerseInsert(table, Head(pending))
         IN  IF ins.ok THEN Flush(ins.table, Tail(pending)) ELSE ins

\* db.commit(): all pending verses are stored, or, when an insert is
\* refused, the exception leaves load_csv and db.close() rolls back
Commit(committed, pending) ==
    LET out == Flush(committed, pending)
    IN  IF out.ok
        THEN [status |-> "done", verses |-> out.table, inserted |-> Len(pending)]
        ELSE [status |-> "IntegrityError", verses |-> committed, inserted |-> 0]

RECURSIVE LoadRowsEach(_, _, _, _)
\* Mutation of LoadRows: the rows read before a row that is no number are
\* committed
LoadRowsEach(committed, pending, rows, autoflush) ==
    IF rows = <<>> THEN Commit(committed, pending)
    ELSE LET row == Head(rows)
         IN  IF PyInt(row.chapter) = None \/ PyInt(row.verse) = None
             THEN [Commit(committed, pending) EXCEPT !.status = "ValueError"]
             ELSE IF HasTriple(IF autoflush THEN committed \o pending ELSE committed,
                               Triple(VerseOfRow(row)))
             THEN LoadRowsEach(committed, pending, Tail(rows), autoflush)
             ELSE LoadRowsEach(committed, Append(pending, VerseOfRow(row)),
                               Tail(rows), autoflush)

RECURSIVE LoadRows(_, _, _, _)
\* The loop over the data rows, then the commit. A field that is no number
\* raises ValueError out of the loop and nothing is committed.
LoadRows(committed, pending, rows, autoflush) ==
    IF rows = <<>> THEN Commit(committed, pending)
    ELSE LET row == Head(rows)
         IN  IF PyInt(row.chapter) = None \/ PyInt(row.verse) = None
             THEN [status |-> "ValueError", verses |-> committed, inserted |-> 0]
             ELSE IF HasTriple(IF autoflush THEN committed \o pending ELSE committed,
                               Triple(VerseOfRow(row)))
             THEN LoadRows(committed, pending, Tail(rows), autoflush)
             ELSE LoadRows(committed, Append(pending, VerseOfRow(row)), Tail(rows),
                           autoflush)

\* load_csv(path) on a stored catalog
LoadFile(vs, file, autoflush) ==
    IF ~(Required \subseteq file.fieldnames)
    THEN [status |-> "ValueError", verses |-> vs, inserted |-> 0]
    ELSE LoadRows(vs, <<>>, file.rows, autoflush)

\* The database after Base.metadata.create_all on a new file
InitLoad ==
    /\ verses = <<>>
    /\ settingsSeed = None
    /\ selections = {}
    /\ rng = 0
    /\ lastCall = NoOutcome("none")
    /\ pc = [p \in Procs |-> "idle"]
    /\ loc = [p \in Procs |-> IdleLoc]
    /\ twin = NoTwin

\* python -m scripts.load_verses file
LoadCsv(file) ==
    /\ \E autoflush \in Autoflush :
         \E out \in {LoadFile(verses, file, autoflush)} :
             /\ verses' = out.verses
             /\ lastCall' = [op |-> "load_csv", file |-> file, status |-> out.status,
                             inserted |-> out.inserted]
    /\ UNCHANGED <<settingsSeed, selections, rng, pc, loc, twin>>

NextLoad == \E file \in Files : LoadCsv(file)

SpecLoad == InitLoad /\ [][NextLoad]_vars

-----------------------------------------------------------------------------
\* gui/manager.py: the window of the verse manager on one database

\* Mutation of ClearAllVerses: the verses are deleted, the selections kept
ClearVersesOnly ==
    /\ verses' = <<>>
    /\ lastCall' = NoOutcome("clear")
    /\ UNCHANGED <<selections, settingsSeed, rng, pc, loc, twin>>

\* VerseManagerWindow.clear_all_verses: DELETE FROM daily_selections, then
\* DELETE FROM verses, one commit
ClearAllVerses ==
    /\ selections' = {}
    /\ verses' = <<>>
    /\ lastCall' = NoOutcome("clear")
    /\ UNCHANGED <<settingsSeed, rng, pc, loc, twin>>

\* The range of export_selections, --start 1900-01-01 --days 36500, at the
\* scale of the model: every date
ExportStart == 1
ExportDays == MaxDate

\* VerseManagerWindow.export_selections: the schedule script is run over the
\* export range without --overwrite; main() calls generate() before
\* export_csv(), which only reads
ExportSelections ==
    /\ \E r \in FreshStates(settingsSeed) :
         \E out \in {GenerateLoop(verses, selections, r, ExportStart, ExportDays,
                                  FALSE, 0)} :
             /\ \A s \in out.sels : s.id <= MaxId
             /\ selections' = out.sels
             /\ lastCall' = [NoOutcome("export_selections") EXCEPT
                                !.date = out.date,
                                !.status = out.status]
    /\ UNCHANGED <<verses, settingsSeed, rng, pc, loc, twin>>

\* The files loaded in the window: a header and one data row at most
ManagerFiles == {file \in Files : Len(file.rows) <= 1}

\* The operations of the window and the service on one database, in any
\* order
NextManager ==
    \/ \E file \in ManagerFiles : LoadCsv(file)
    \/ VerseToday
    \/ \E start \in Dates, days \in 1..MaxDate, overwrite \in BOOLEAN :
          /\ start + days - 1 <= MaxDate
          /\ Generate(start, days, overwrite)
    \/ ExportSelections
    \/ ResetDailySelections
    \/ ClearAllVerses

SpecManager == InitLoad /\ [][NextManager]_vars

-----------------------------------------------------------------------------
\* Properties

\* The operation recorded is a resolution of a date
IsResolve(c) == c.op \in {"get_for_date", "verse_today"}

\* The entries no row of the table S references
Unused(S) == {v \in VerseIds(verses) : \A s \in S : s.verse_id # v}

\* The (book, chapter) of entry v
Group(v) == <<verses[v].book, verses[v].chapter>>

\* The row of S with the greatest date
Latest(S) == CHOOSE s \in S : \A t \in S : t.date <= s.date

\* C1. Idempotence: a resolution of date d that follows a resolution of d
\* that returned a row returns that same row (same id, same verse) and
\* leaves the table as it was.
C1_Idempotent ==
    [][(/\ IsResolve(lastCall) /\ lastCall.row # None
        /\ IsResolve(lastCall') /\ lastCall'.date = lastCall.date)
       => (/\ lastCall'.status = "existing"
           /\ lastCall'.row = lastCall.row
           /\ selections' = selections)]_vars

\* A date has been resolved a second time.
C1_Witness ==
    /\ IsResolve(lastCall)
    /\ lastCall.status = "existing"
    /\ lastCall.row[1] \in selections

\* C2. No repeat until exhaustion: with N entries, a resolution of an
\* unassigned date that finds k rows creates a row for an entry no earlier
\* row references when k < N, and raises Exhausted when k = N; so N new
\* dates get N distinct entries and the next new date fails.
C2_NoRepeatUntilExhaustion ==
    (IsResolve(lastCall) /\ lastCall.status # "existing") =>
        LET k == Cardinality(lastCall.before)
            N == Len(verses)
        IN  /\ k <= N
            /\ k < N => /\ lastCall.status = "created"
                        /\ \A s \in lastCall.before :
                              s.verse_id # lastCall.row[1].verse_id
                        /\ Cardinality({s.verse_id : s \in selections}) = k + 1
            /\ k = N => lastCall.status = "exhausted"

\* Every entry of a catalog of two has been assigned and a further date
\* has failed.
C2_Witness ==
    /\ IsResolve(lastCall)
    /\ lastCall.status = "exhausted"
    /\ Len(verses) = 2
    /\ Cardinality({s.verse_id : s \in selections}) = 2

\* C3. At most one row per date, also while sessions interleave: two
\* sessions that both passed the lookup for the same date leave exactly one
\* row for it.
C3_OneSelectionPerDate ==
    /\ \A s, t \in selections : s.date = t.date => s = t
    /\ \A p, q \in Procs :
         (/\ p # q /\ pc[p] = "done" /\ pc[q] = "done"
          /\ loc[p].date = loc[q].date
          /\ loc[p].status \in {"created", "conflict"}
          /\ loc[q].status \in {"created", "conflict"})
         => Cardinality({s \in selections : s.date = loc[p].date[1]}) = 1

\* Two sessions raced for one date: one insert went through, one was refused.
C3_Witness ==
    \E p, q \in Procs :
        /\ loc[p].date = loc[q].date
        /\ pc[p] = "done" /\ loc[p].status = "created"
        /\ pc[q] = "done" /\ loc[q].status = "conflict"

\* C4. First resolution wins: two sessions that resolved the same date,
\* neither finding the catalog used up, both return a row, and the two rows
\* name the same entry.
C4_BothReturnTheSameEntry ==
    \A p, q \in Procs :
        (/\ pc[p] = "done" /\ pc[q] = "done"
         /\ loc[p].date = loc[q].date
         /\ loc[p].status # "exhausted" /\ loc[q].status # "exhausted")
        => /\ loc[p].row # None
           /\ loc[q].row # None
           /\ loc[p].row[1].verse_id = loc[q].row[1].verse_id

\* C5. No two rows reference the same entry, in every state the selector,
\* the schedule script (with and without overwrite) and the reset reach.
C5_NoDuplicateEntry ==
    \A s, t \in selections : s.verse_id = t.verse_id => s = t

\* A schedule run with overwrite has replaced rows and left several.
C5_Witness ==
    /\ lastCall.op = "generate"
    /\ lastCall.range[1][3]
    /\ lastCall.status = "done"
    /\ Cardinality(selections) >= 2
    /\ \E s \in selections : s.id > Cardinality(selections)

\* C6. Group diversity: a resolution that creates a row while some unused
\* entry lies outside the (book, chapter) of the latest-dated row chooses an
\* entry outside that (book, chapter).
C6_GroupDiversity ==
    (/\ IsResolve(lastCall) /\ lastCall.status = "created"
     /\ lastCall.before # {})
    => LET last == Group(Latest(lastCall.before).verse_id)
       IN  (\E v \in Unused(lastCall.before) : Group(v) # last)
           => Group(lastCall.row[1].verse_id) # last

\* A row was created when unused entries lay both inside and outside the
\* latest group.
C6_Witness ==
    /\ IsResolve(lastCall) /\ lastCall.status = "created"
    /\ lastCall.before # {}
    /\ LET last == Group(Latest(lastCall.before).verse_id)
       IN  /\ \E v \in Unused(lastCall.before) : Group(v) # last
           /\ \E v \in Unused(lastCall.before) : Group(v) = last

\* C7. Diversity fallback: a resolution of an unassigned date that finds
\* unused entries, all of them in the (book, chapter) of the latest-dated
\* row, creates a row for one of them.
C7_DiversityFallback ==
    (/\ IsResolve(lastCall) /\ lastCall.status # "existing"
     /\ lastCall.before # {}
     /\ Unused(lastCall.before) # {}
     /\ \A v \in Unused(lastCall.before) :
           Group(v) = Group(Latest(lastCall.before).verse_id))
    => /\ lastCall.status = "created"
       /\ lastCall.row[1].verse_id \in Unused(lastCall.before)
       /\ Group(lastCall.row[1].verse_id) = Group(Latest(lastCall.before).verse_id)

\* A row was created from inside the latest group, nothing else being left.
C7_Witness ==
    /\ IsResolve(lastCall) /\ lastCall.status = "created"
    /\ lastCall.before # {}
    /\ Group(lastCall.row[1].verse_id) = Group(Latest(lastCall.before).verse_id)

\* C8. Exhaustion changes nothing and reaches the caller: a resolution of
\* an unassigned date that finds no unused entry (every entry referenced, or
\* an empty catalog) raises Exhausted, leaves the table exactly as it found
\* it, with no row for that date, and the route answers with the error.
C8_ExhaustedChangesNothing ==
    (/\ IsResolve(lastCall) /\ lastCall.status # "existing"
     /\ Unused(lastCall.before) = {})
    => /\ lastCall.status = "exhausted"
       /\ lastCall.row = None
       /\ selections = lastCall.before
       /\ \A s \in selections : s.date # lastCall.date[1]
       /\ lastCall.op = "verse_today" => lastCall.response = Some("error")

\* The route has failed on a used-up catalog that holds rows.
C8_Witness ==
    /\ lastCall.op = "verse_today"
    /\ lastCall.status = "exhausted"
    /\ lastCall.response = Some("error")
    /\ selections # {}

\* C9. A resolution of an assigned date is a pure read: it changes neither
\* table nor the random state of the selector.
C9_PureRead ==
    [][(IsResolve(lastCall') /\ lastCall'.status = "existing")
       => (/\ selections' = selections
           /\ verses' = verses
           /\ rng' = rng)]_vars

\* A kept selector that has drawn before has resolved an assigned date.
C9_Witness ==
    /\ IsResolve(lastCall) /\ lastCall.status = "existing"
    /\ Cardinality(selections) >= 2

\* C10. Seed reproducibility: two selectors built with the same integer
\* seed and run through the same calls return the same rows.
C10_SameSeedSameChoices ==
    /\ twin.lastCall.status = lastCall.status
    /\ twin.lastCall.row = lastCall.row


\* The rows of S were created one after the other for consecutive dates in
\* ascending order, the last of them for the day before d
AscendingRun(S, d) ==
    /\ {s.date : s \in S} = (d - Cardinality(S))..(d - 1)
    /\ {s.id : s \in S} = 1..Cardinality(S)
    /\ \A s, t \in S : s.id < t.id => s.date < t.date

\* The row of S created last
Preceding(S) == CHOOSE s \in S : \A t \in S : t.id <= s.id

\* C11. Sequential scheduling: from an empty history, resolving consecutive
\* new dates in ascending order, every pick is an entry not picked before,
\* and its (book, chapter) differs from that of the pick made just before it
\* unless every entry still unused lies in that (book, chapter).
C11_SequentialScheduling ==
    (/\ IsResolve(lastCall) /\ lastCall.status = "created"
     /\ AscendingRun(lastCall.before, lastCall.date[1]))
    => LET e == lastCall.row[1].verse_id
       IN  /\ \A s \in lastCall.before : s.verse_id # e
           /\ lastCall.before # {} =>
                 LET prev == Group(Preceding(lastCall.before).verse_id)
                 IN  (\E v \in Unused(lastCall.before) : Group(v) # prev)
                     => Group(e) # prev

\* The third of three consecutive dates resolved in ascending order got an
\* entry outside the group of the second, and the catalog is used up.
C11_Witness ==
    /\ IsResolve(lastCall) /\ lastCall.status = "created"
    /\ AscendingRun(lastCall.before, lastCall.date[1])
    /\ Cardinality(lastCall.before) = 2
    /\ Cardinality(selections) = Len(verses)
    /\ Group(lastCall.row[1].verse_id) # Group(Preceding(lastCall.before).verse_id)


\* The entries no row of S dated before d references
UnusedBefore(S, d) == Unused({s \in S : s.date < d})

\* C12 as stated. In the selection test no two picks of consecutive dates
\* share a (book, chapter), whatever the random source draws.
C12_NoConsecutiveSameChapter ==
    \A s, t \in selections :
        t.date = s.date + 1 => Group(s.verse_id) # Group(t.verse_id)

\* C12, amended. In the selection test two picks of consecutive dates share
\* a (book, chapter) only when every entry still unused at the later pick
\* lay in the (book, chapter) of the earlier one.
C12_SameChapterOnlyWhenForced ==
    \A s, t \in selections :
        (t.date = s.date + 1 /\ Group(s.verse_id) = Group(t.verse_id))
        => \A v \in UnusedBefore(selections, t.date) : Group(v) = Group(s.verse_id)

\* The test loop has run its five passes and the last two picks share a
\* chapter.
C12_Witness ==
    /\ verses = TestVerses
    /\ Cardinality(selections) = TestDays
    /\ \E s, t \in selections :
          /\ s.date = TestDays - 1 /\ t.date = TestDays
          /\ Group(s.verse_id) = Group(t.verse_id)


\* C13. Consecutive calendar days avoid the same chapter: a resolution that
\* creates the row of d while the row of d - 1 exists chooses an entry outside
\* the (book, chapter) of the row of d - 1, unless every unused entry lies in
\* it; in whatever order the dates are resolved.
C13_AvoidsChapterOfDayBefore ==
    (IsResolve(lastCall) /\ lastCall.status = "created") =>
        \A y \in lastCall.before :
            y.date = lastCall.date[1] - 1 =>
                ((\E v \in Unused(lastCall.before) : Group(v) # Group(y.verse_id))
                 => Group(lastCall.row[1].verse_id) # Group(y.verse_id))


\* The dates generate(start, days, .) goes through, from the recorded range
RangeDates(range) == range[1][1]..(range[1][1] + range[1][2] - 1)

\* C14. generate(start, days, overwrite=False) keeps every row it finds, in
\* the range and outside it; the rows it adds are for dates of the range that
\* had no row.
C14_GenerateKeepsExisting ==
    [][(lastCall'.op = "generate" /\ ~lastCall'.range[1][3])
       => (/\ \A s \in selections : s \in selections'
           /\ \A s \in selections' \ selections :
                 /\ s.date \in RangeDates(lastCall'.range)
                 /\ \A x \in selections : x.date # s.date)]_vars

\* A run without overwrite has ended over a range in which a later date had
\* its row before an earlier one: the run filled the gap around a kept row.
C14_Witness ==
    /\ lastCall.op = "generate"
    /\ ~lastCall.range[1][3]
    /\ lastCall.status = "done"
    /\ \E s, t \in selections :
          /\ s.date \in RangeDates(lastCall.range)
          /\ t.date \in RangeDates(lastCall.range)
          /\ s.date < t.date /\ s.id > t.id


\* C15. Entry uniqueness: after any sequence of load_csv runs, files with
\* repeated rows and reloads included, no two verse rows share a
\* (book, chapter, verse). A load that ends normally leaves every triple of
\* its file stored (once); a load is refused with IntegrityError only when
\* its file names a triple twice.
C15_EntryUniqueness ==
    /\ \A i, j \in 1..Len(verses) :
          Triple(verses[i]) = Triple(verses[j]) => i = j
    /\ (lastCall.op = "load_csv" /\ lastCall.status = "done") =>
          \A i \in 1..Len(lastCall.file.rows) :
              HasTriple(verses, Triple(VerseOfRow(lastCall.file.rows[i])))
    /\ (lastCall.op = "load_csv" /\ lastCall.status = "IntegrityError") =>
          \E i, j \in 1..Len(lastCall.file.rows) :
              /\ i # j
              /\ Triple(VerseOfRow(lastCall.file.rows[i]))
                   = Triple(VerseOfRow(lastCall.file.rows[j]))

\* A file that names one verse twice, written differently, has been loaded
\* into a catalog and stored one row for it.
C15_Witness ==
    /\ lastCall.op = "load_csv"
    /\ lastCall.status = "done"
    /\ lastCall.inserted = 1
    /\ Len(verses) = 2
    /\ \E i, j \in 1..Len(lastCall.file.rows) :
          /\ i # j
          /\ lastCall.file.rows[i] # lastCall.file.rows[j]
          /\ Triple(VerseOfRow(lastCall.file.rows[i]))
               = Triple(VerseOfRow(lastCall.file.rows[j]))


\* C16. A resolution of date d that finds the date assigned or an unused
\* entry succeeds, and the row it returns is a stored row dated d whose
\* verse_id is the id of a verse of the catalog; get_today is the resolution
\* of the current date.
C16_ReturnsRowOfTheDate ==
    (IsResolve(lastCall)
     /\ (lastCall.status \in {"existing", "created"}
         \/ Unused(lastCall.before) # {}
         \/ \E s \in lastCall.before : s.date = lastCall.date[1]))
    => /\ lastCall.status \in {"existing", "created"}
       /\ lastCall.row # None
       /\ lastCall.row[1] \in selections
       /\ lastCall.row[1].date = lastCall.date[1]
       /\ lastCall.row[1].verse_id \in VerseIds(verses)

\* A row was created for the last date with a verse whose id is not the
\* number of the date, other dates being assigned.
C16_Witness ==
    /\ IsResolve(lastCall) /\ lastCall.status = "created"
    /\ lastCall.before # {}
    /\ lastCall.date = Some(MaxDate)
    /\ lastCall.row[1].date = MaxDate
    /\ lastCall.row[1].verse_id # MaxDate


\* The elements of a sequence
Members(seq) == {seq[i] : i \in 1..Len(seq)}

\* C17. The last-used group of a new pick is the (book, chapter) of the
\* verse of the row with the greatest date, whatever the target date, the row
\* of the day before it and the order the rows were created in; with no row
\* there is none and the pool holds every unused entry.
C17_LastUsedGroupIsOfMaxDate ==
    (IsResolve(lastCall) /\ lastCall.status # "existing") =>
        IF lastCall.before = {}
        THEN /\ lastCall.last_chapter = None
             /\ lastCall.pool # None =>
                   Members(lastCall.pool[1]) = Unused(lastCall.before)
        ELSE lastCall.last_chapter = Some(Group(Latest(lastCall.before).verse_id))

\* A date was backfilled: the row of the day before it and the row created
\* last both differ in (book, chapter) from the row of the greatest date, and
\* the last-used group is that of the greatest date.
C17_Witness ==
    /\ IsResolve(lastCall) /\ lastCall.status = "created"
    /\ lastCall.before # {}
    /\ lastCall.date[1] < Latest(lastCall.before).date
    /\ \E y \in lastCall.before :
          /\ y.date = lastCall.date[1] - 1
          /\ Group(y.verse_id) # Group(Latest(lastCall.before).verse_id)
    /\ Group(Preceding(lastCall.before).verse_id)
         # Group(Latest(lastCall.before).verse_id)
    /\ lastCall.last_chapter = Some(Group(Latest(lastCall.before).verse_id))


\* The unused entries outside the (book, chapter) of the latest-dated row of S
OutsideLatest(S) ==
    {v \in Unused(S) : S = {} \/ Group(v) # Group(Latest(S).verse_id)}

\* C18. The pool is never empty when a choice is made: a resolution of an
\* unassigned date that finds unused entries hands random.choice a non-empty
\* pool, the unused entries outside the latest group if there are any, else
\* all unused entries.
C18_PoolNeverEmpty ==
    (/\ IsResolve(lastCall) /\ lastCall.status # "existing"
     /\ Unused(lastCall.before) # {})
    => /\ lastCall.pool # None
       /\ lastCall.pool[1] # <<>>
       /\ Members(lastCall.pool[1]) =
             IF OutsideLatest(lastCall.before) # {}
             THEN OutsideLatest(lastCall.before)
             ELSE Unused(lastCall.before)

\* A choice was made from a pool of one entry, the filter having left
\* nothing.
C18_Witness ==
    /\ IsResolve(lastCall) /\ lastCall.status = "created"
    /\ lastCall.pool # None
    /\ Len(lastCall.pool[1]) = 1
    /\ OutsideLatest(lastCall.before) = {}


\* C19. No-repeat comes before diversity: the entry of a new pick is a
\* candidate, referenced by no row that existed when the pick was made,
\* whatever the date of that row, whether the chapter filter narrowed the
\* pool or the pool fell back to all candidates.
C19_PickIsACandidate ==
    (IsResolve(lastCall) /\ lastCall.status = "created") =>
        /\ Members(lastCall.pool[1]) \subseteq Unused(lastCall.before)
        /\ lastCall.row[1].verse_id \in Members(lastCall.pool[1])
        /\ \A s \in lastCall.before : s.verse_id # lastCall.row[1].verse_id
        /\ \A s, t \in selections : s.verse_id = t.verse_id => s.date = t.date

\* A date between two assigned dates got the one entry left, which lies in
\* the latest group.
C19_Witness ==
    /\ IsResolve(lastCall) /\ lastCall.status = "created"
    /\ \E s, t \in lastCall.before :
          s.date < lastCall.date[1] /\ lastCall.date[1] < t.date
    /\ Unused(lastCall.before) = {lastCall.row[1].verse_id}
    /\ Group(lastCall.row[1].verse_id) = Group(Latest(lastCall.before).verse_id)


\* C20. Rows are stable: no call of get_for_date, whether it succeeds or
\* raises Exhausted, changes or removes a row that exists or adds a second
\* row for its date, and a call for the date of an existing row returns that
\* row.
C20_AssignmentsAreStable ==
    [][IsResolve(lastCall') =>
         \A s \in selections :
             /\ s \in selections'
             /\ \A x \in selections' : x.date = s.date => x = s
             /\ lastCall'.date = Some(s.date) =>
                   /\ lastCall'.status = "existing"
                   /\ lastCall'.row = Some(s)]_vars

\* The first row created was returned again after later calls had used up
\* the catalog, a date being left without a row.
C20_Witness ==
    /\ IsResolve(lastCall) /\ lastCall.status = "existing"
    /\ lastCall.row[1].id = 1
    /\ Cardinality(selections) >= 2
    /\ Cardinality(selections) = Len(verses)
    /\ Cardinality(selections) < MaxDate


C27_LoadAllOrNothing ==
    [][lastCall'.op = "load_csv" =>
         LET file == lastCall'.file
         IN  /\ ~(Required \subseteq file.fieldnames) =>
                   lastCall'.status = "ValueError"
             /\ (\E i \in 1..Len(file.rows) :
                     \/ PyInt(file.rows[i].chapter) = None
                     \/ PyInt(file.rows[i].verse) = None) =>
                   lastCall'.status = "ValueError"
             /\ lastCall'.status # "done" =>
                   /\ verses' = verses
                   /\ lastCall'.inserted = 0
             /\ verses' # verses => lastCall'.status = "done"]_vars

\* A file with all columns, a first row for a verse that is not stored and
\* a second row whose chapter is no number has been loaded: ValueError, and
\* the verse of the first row is not in the catalog.
C27_Witness ==
    /\ lastCall.op = "load_csv"
    /\ lastCall.status = "ValueError"
    /\ Required \subseteq lastCall.file.fieldnames
    /\ Len(lastCall.file.rows) = 2
    /\ PyInt(lastCall.file.rows[1].chapter) # None
    /\ PyInt(lastCall.file.rows[2].chapter) = None
    /\ \A j \in 1..Len(verses) :
          Triple(verses[j]) # Triple(VerseOfRow(lastCall.file.rows[1]))


\* C22. reset_daily_selections deletes every selection and leaves the
\* verses as they are; clear_all_verses leaves no selection and no verse;
\* and with no selection stored, as after a reset, the resolution of any
\* date creates a row whenever the catalog has a verse.
C22_ResetRecovers ==
    [][/\ lastCall'.op = "reset" => (selections' = {} /\ verses' = verses)
       /\ lastCall'.op = "clear" => (selections' = {} /\ verses' = <<>>)
       /\ (selections = {} /\ IsResolve(lastCall') /\ verses # <<>>) =>
             /\ lastCall'.status = "created"
             /\ lastCall'.row # None
             /\ lastCall'.row[1] \in selections'
             /\ lastCall'.row[1].date = lastCall'.date[1]]_vars

\* The selections of a catalog of two verses have been reset.
C22_Witness ==
    /\ lastCall.op = "reset"
    /\ selections = {}
    /\ Len(verses) = 2


\* C23. Two sessions that have each created the row of their own date, the
\* two dates different, have not chosen the same entry, however their
\* statements interleave.
C23_DistinctDatesDistinctEntries ==
    \A p, q \in Procs :
        (/\ p # q
         /\ pc[p] = "done" /\ loc[p].status = "created"
         /\ pc[q] = "done" /\ loc[q].status = "created"
         /\ loc[p].date # loc[q].date)
        => loc[p].row[1].verse_id # loc[q].row[1].verse_id


\* C24. export_selections is read-only: it leaves the selections as they
\* are, so creates no row for a date that had none, and it ends normally
\* however many verses are unused.
C24_ExportReadOnly ==
    [][lastCall'.op = "export_selections" =>
         /\ selections' = selections
         /\ lastCall'.status = "done"]_vars


C26_PartialProgress ==
    [][(lastCall'.op = "generate" /\ lastCall'.status = "exhausted") =>
         LET failing == lastCall'.date[1]
         IN  /\ failing \in RangeDates(lastCall'.range)
             /\ \A d \in RangeDates(lastCall'.range) :
                   d < failing => \E s \in selections' : s.date = d
             /\ \A s \in selections' : s.date # failing
             /\ \A s \in selections' : s.date > failing => s \in selections
             /\ \A s \in selections :
                   /\ \E t \in selections' : t.date = s.date
                   /\ ~lastCall'.range[1][3] => s \in selections'
             /\ Unused(selections') = {}]_vars

\* A run over several dates has stopped after its first date: the row of
\* that date is stored, made by this run as the last one of the table, and
\* the catalog has a verse.
C26_Witness ==
    /\ lastCall.op = "generate"
    /\ lastCall.status = "exhausted"
    /\ verses # <<>>
    /\ lastCall.range[1][2] > 1
    /\ lastCall.date = Some(lastCall.range[1][1] + 1)
    /\ \E s \in selections :
          /\ s.date = lastCall.range[1][1]
          /\ \A t \in selections : t.id <= s.id


\* C28. Every selection references a stored verse, in every state that
\* load_csv, /verse/today, generate, the export, reset_daily_selections and
\* clear_all_verses reach in any order; /verse/today never answers that the
\* verse was not found.
C28_ReferentialIntegrity ==
    /\ \A s \in selections : s.verse_id \in VerseIds(verses)
    /\ lastCall.op = "verse_today" => lastCall.response # Some("verse not found")

\* /verse/today has created a row and answered with its verse, the last of
\* a catalog that starts with Genesis 1:2.
C28_Witness ==
    /\ lastCall.op = "verse_today"
    /\ lastCall.response = Some("verse")
    /\ lastCall.status = "created"
    /\ verses # <<>>
    /\ Triple(verses[1]) = <<"Genesis", 1, 2>>
    /\ lastCall.row[1].verse_id = Len(verses)


\* C29. Seed precedence: a selector built with an explicit integer seed s,
\* 0 included, starts from the random state of Random(s), whatever
\* settings.seed is; so does its twin built with the same seed.
C29_ExplicitSeedUsed ==
    lastCall.op = "init" =>
        /\ rng = twin.seed[1] % RngMod
        /\ twin.rng = twin.seed[1] % RngMod

====
